---- MODULE Spec2Model ----
(***************************************************************************)
(* Model of go-git-fixtures' embedfs package (a read-only billy filesystem *)
(* over Go's embed.FS) and of the tgz package (Extract of a gzip'ed tar    *)
(* into a temporary directory of a billy filesystem).                      *)
(***************************************************************************)
EXTENDS Integers, Sequences, FiniteSets, TLC

(***************************************************************************)
(* Bounds of the model.                                                    *)
(***************************************************************************)
MaxDirLen == 2      \* longest directory listing of the embedded source
SrcLen == 2         \* bytes in the embedded file "f"
MaxBuf == 2         \* longest read buffer
MaxHandles == 2     \* handles opened in one behaviour

VARIABLES
  dirEntries,   \* what e.fs.ReadDir lists for the directory "d", in source order
  fh,           \* the *file handle the file operations act on
  ret,          \* what the last embedfs call returned
  tree,         \* the contents of the billy filesystem handed to Extract
  host,         \* the host's own filesystem when that backend is not mapped on it
  hostMapped,   \* the backend is the host filesystem
  hasChange,    \* the backend implements billy.Change (Chmod)
  ex            \* the Extract invocations: position, locals, results

embedVars == <<dirEntries, fh, ret>>
tgzVars == <<tree, host, hostMapped, hasChange, ex>>
vars == <<dirEntries, fh, ret, tree, host, hostMapped, hasChange, ex>>

(***************************************************************************)
(* Errors.  msg is the text, wraps the sentinel reachable by errors.Is.    *)
(***************************************************************************)
NoErr == [msg |-> "", wraps |-> ""]
ErrReadOnlyWrap(m) == [msg |-> m, wraps |-> "ErrReadOnly"]
ErrClosed == [msg |-> "file already closed", wraps |-> "ErrClosed"]
ErrNotExist == [msg |-> "file does not exist", wraps |-> "ErrNotExist"]
ErrPlain(m) == [msg |-> m, wraps |-> ""]
ErrEOF == [msg |-> "EOF", wraps |-> "EOF"]

(***************************************************************************)
(* The embedded source: a file "f", a directory "d"; "missing" is absent.  *)
(***************************************************************************)
FileNames == {"f", "d", "missing"}
EntryNames == 1..MaxDirLen

\* os.O_* flags other than O_RDONLY (which is 0)
WriteFlags == {"O_CREATE", "O_APPEND", "O_TRUNC", "O_RDWR", "O_WRONLY"}
FlagChoices == {{}, {"O_WRONLY"}, {"O_RDWR"}, {"O_CREATE"}, {"O_APPEND"}, {"O_TRUNC"},
                {"O_EXCL"}, {"O_SYNC"}, {"O_CREATE", "O_EXCL"}, {"O_RDWR", "O_SYNC"}}

NilInfo == [isNil |-> TRUE, name |-> 0]
FileInfo(n) == [isNil |-> FALSE, name |-> n]

\* id tells the handles apart that the model opens one after the other
NoHandle == [exists |-> FALSE, id |-> 0, name |-> "", isClosed |-> FALSE, std |-> FALSE,
             srcCloses |-> 0, pos |-> 0]

NoRet == [op |-> "", recvNil |-> FALSE, flag |-> {}, err |-> NoErr, n |-> 0, hasFile |-> FALSE,
          wasClosed |-> FALSE, touched |-> FALSE, list |-> <<>>, panic |-> FALSE,
          srcCloseFailed |-> FALSE]

Result(op, err) == [NoRet EXCEPT !.op = op, !.err = err]

Range(s) == {s[i] : i \in 1..Len(s)}

\* the listings the underlying source may produce: distinct names, any order
RECURSIVE DistinctSeqs(_, _)
DistinctSeqs(S, n) ==
  IF n = 0 THEN {<<>>}
  ELSE LET shorter == DistinctSeqs(S, n - 1)
       IN shorter \cup UNION {{Append(s, x) : x \in S \ Range(s)} :
                              s \in {t \in shorter : Len(t) = n - 1}}

(***************************************************************************)
(* sort.Sort(ByName(entries)): for fewer than 12 elements Go sorts by      *)
(* insertion; ByName.Less calls Name() on both elements and a nil          *)
(* os.FileInfo makes that call panic.                                      *)
(***************************************************************************)
Panic == <<[isNil |-> TRUE, name |-> -1]>>

LessPanics(a, i, j) == a[i].isNil \/ a[j].isNil
Less(a, i, j) == a[i].name < a[j].name
Swap(a, i, j) == [a EXCEPT ![i] = a[j], ![j] = a[i]]

RECURSIVE SiftDown(_, _)
SiftDown(a, j) ==
  IF j <= 1 THEN a
  ELSE IF LessPanics(a, j, j - 1) THEN Panic
  ELSE IF Less(a, j, j - 1) THEN SiftDown(Swap(a, j, j - 1), j - 1)
  ELSE a

RECURSIVE InsertionSort(_, _)
InsertionSort(a, i) ==
  IF i > Len(a) THEN a
  ELSE LET r == SiftDown(a, i)
       IN IF r = Panic THEN Panic ELSE InsertionSort(r, i + 1)

SortByName(a) == InsertionSort(a, 2)

\* entries := make([]os.FileInfo, len(dirEntries)): len(dirEntries) nil records
MakeEntries(n) == [i \in 1..n |-> NilInfo]

\* the loop "entries = append(entries, fi)" over dirEntries
RECURSIVE AppendInfos(_, _, _)
AppendInfos(entries, listing, i) ==
  IF i > Len(listing) THEN entries
  ELSE AppendInfos(Append(entries, FileInfo(listing[i])), listing, i + 1)

ReadDirEntries(listing) == AppendInfos(MakeEntries(Len(listing)), listing, 1)

(***************************************************************************)
(* EmbedFS: the filesystem-level operations.                               *)
(***************************************************************************)
Min(a, b) == IF a < b THEN a ELSE b

\* e.fs.Open(filename) of the embedded source
SrcOpenErr(filename) == IF filename = "missing" THEN ErrNotExist ELSE NoErr

NewHandle(name, isStd) ==
  [exists |-> TRUE, id |-> fh.id + 1, name |-> name, isClosed |-> FALSE, std |-> isStd,
   srcCloses |-> 0, pos |-> 0]

\* billy.ReadCapability
Capabilities == {"Read"}

Create(filename) ==
  /\ ret' = Result("Create", ErrReadOnlyWrap("cannot create file"))
  /\ UNCHANGED <<dirEntries, fh, tgzVars>>

\* a flag test that forgets O_WRONLY
IsWriteFlag_NoWronly(flag) == flag \cap (WriteFlags \ {"O_WRONLY"}) # {}

\* the flag test of OpenFile: flag&(O_CREATE|O_APPEND|O_TRUNC|O_RDWR|O_WRONLY) != 0
IsWriteFlag(flag) == flag \cap WriteFlags # {}

\* NewFile(f): f.Stat() of the source may fail
NewFile(op, kind, flag, statOk) ==
  IF kind = "nil"
  THEN /\ ret' = Result(op, ErrPlain("cannot create billy file from nil"))
       /\ UNCHANGED fh
  ELSE IF ~statOk
  THEN /\ ret' = [Result(op, ErrPlain("cannot stat file")) EXCEPT !.touched = TRUE,
                                                                  !.flag = flag]
       /\ UNCHANGED fh
  ELSE /\ fh.id < MaxHandles
       /\ ret' = [Result(op, NoErr) EXCEPT !.touched = TRUE, !.hasFile = TRUE,
                                           !.flag = flag]
       /\ fh' = NewHandle(IF kind = "dir" THEN "d" ELSE "f", kind = "os")

OpenFileOp(op, filename, flag, statOk) ==
  IF IsWriteFlag(flag)
  THEN /\ ret' = [Result(op, ErrReadOnlyWrap("unsupported flag")) EXCEPT !.flag = flag]
       /\ UNCHANGED fh
  ELSE IF SrcOpenErr(filename) # NoErr
  THEN /\ ret' = [Result(op, SrcOpenErr(filename)) EXCEPT !.touched = TRUE, !.flag = flag]
       /\ UNCHANGED fh
  ELSE NewFile(op, IF filename = "d" THEN "dir" ELSE "embed", flag, statOk)

OpenFile(filename, flag, statOk) ==
  /\ OpenFileOp("OpenFile", filename, flag, statOk)
  /\ UNCHANGED <<dirEntries, tgzVars>>

Open(filename, statOk) ==
  /\ OpenFileOp("Open", filename, {}, statOk)
  /\ UNCHANGED <<dirEntries, tgzVars>>

NewFileDirect(kind, statOk) ==
  /\ NewFile("NewFile", kind, {}, statOk)
  /\ UNCHANGED <<dirEntries, tgzVars>>

Stat(filename) ==
  /\ ret' = [Result("Stat", SrcOpenErr(filename)) EXCEPT !.touched = TRUE]
  /\ UNCHANGED <<dirEntries, fh, tgzVars>>

ReadDir(path) ==
  /\ IF path # "d"
     THEN ret' = [Result("ReadDir", IF path = "f" THEN ErrPlain("not a directory")
                                                  ELSE ErrNotExist)
                    EXCEPT !.touched = TRUE]
     ELSE LET sorted == SortByName(ReadDirEntries(dirEntries))
          IN ret' = [Result("ReadDir", NoErr) EXCEPT
                       !.touched = TRUE,
                       !.panic = (sorted = Panic),
                       !.list = IF sorted = Panic THEN <<>> ELSE sorted]
  /\ UNCHANGED <<dirEntries, fh, tgzVars>>

MkdirAll(path) ==
  /\ ret' = Result("MkdirAll", ErrReadOnlyWrap("cannot mkdirall"))
  /\ UNCHANGED <<dirEntries, fh, tgzVars>>

Rename(from, to) ==
  /\ ret' = Result("Rename", ErrReadOnlyWrap("cannot rename file"))
  /\ UNCHANGED <<dirEntries, fh, tgzVars>>

Remove(filename) ==
  /\ ret' = Result("Remove", ErrReadOnlyWrap("cannot remove file"))
  /\ UNCHANGED <<dirEntries, fh, tgzVars>>

(***************************************************************************)
(* file: the handle-level operations.  recvNil is a call on a nil *file.   *)
(* The underlying fs.File is either an embed.FS file (its Close does       *)
(* nothing, so it stays readable) or an *os.File (std), which refuses      *)
(* every call after its Close.                                             *)
(***************************************************************************)
FileResult(op, recvNil, err) ==
  [Result(op, err) EXCEPT !.recvNil = recvNil,
                          !.wasClosed = (~recvNil /\ fh.isClosed)]

ErrNilFile == ErrPlain("file is nil")

SrcIsClosed(h) == h.std /\ h.srcCloses > 0

\* f.f.Read(b) with len(b) = blen >= 1
SrcReadErr(h) ==
  IF SrcIsClosed(h) THEN ErrClosed
  ELSE IF h.name = "d" THEN ErrPlain("is a directory")
  ELSE IF h.pos >= SrcLen THEN ErrEOF
  ELSE NoErr

SrcReadN(h, blen) == IF SrcReadErr(h) # NoErr THEN 0 ELSE Min(blen, SrcLen - h.pos)

Read(recvNil, blen) ==
  /\ recvNil \/ fh.exists
  /\ IF recvNil
     THEN /\ ret' = FileResult("Read", TRUE, ErrNilFile)
          /\ UNCHANGED fh
     ELSE /\ ret' = [FileResult("Read", FALSE, SrcReadErr(fh)) EXCEPT
                       !.n = SrcReadN(fh, blen), !.touched = TRUE]
          /\ fh' = [fh EXCEPT !.pos = @ + SrcReadN(fh, blen)]
  /\ UNCHANGED <<dirEntries, tgzVars>>

\* std.ReadAt(b, off)
SrcReadAtErr(h, off) ==
  IF SrcIsClosed(h) THEN ErrClosed
  ELSE IF off >= SrcLen THEN ErrEOF
  ELSE NoErr

ReadAt(recvNil, blen, off) ==
  /\ recvNil \/ fh.exists
  /\ IF recvNil
     THEN ret' = FileResult("ReadAt", TRUE, ErrNilFile)
     ELSE IF fh.std
     THEN ret' = [FileResult("ReadAt", FALSE, SrcReadAtErr(fh, off)) EXCEPT
                    !.n = IF SrcReadAtErr(fh, off) # NoErr THEN 0
                          ELSE Min(blen, SrcLen - off),
                    !.touched = TRUE]
     ELSE ret' = FileResult("ReadAt", FALSE, ErrPlain("readat not supported"))
  /\ UNCHANGED <<dirEntries, fh, tgzVars>>

\* std.Seek(offset, whence): whence 0 = start, 1 = current, 2 = end
SeekTarget(h, offset, whence) ==
  IF whence = 0 THEN offset
  ELSE IF whence = 1 THEN h.pos + offset
  ELSE SrcLen + offset

SrcSeekErr(h, offset, whence) ==
  IF SrcIsClosed(h) THEN ErrClosed
  ELSE IF SeekTarget(h, offset, whence) < 0 THEN ErrPlain("invalid argument")
  ELSE NoErr

\* a Seek that reports success on a source that cannot seek
SeekNotSupported_Silent == NoErr

\* "return 0, fmt.Errorf("seek not supported")"
SeekNotSupported == ErrPlain("seek not supported")

Seek(recvNil, offset, whence) ==
  /\ recvNil \/ fh.exists
  /\ SeekTarget(fh, offset, whence) <= SrcLen
  /\ IF recvNil
     THEN /\ ret' = FileResult("Seek", TRUE, ErrNilFile)
          /\ UNCHANGED fh
     ELSE IF fh.std
     THEN /\ ret' = [FileResult("Seek", FALSE, SrcSeekErr(fh, offset, whence)) EXCEPT
                       !.n = IF SrcSeekErr(fh, offset, whence) # NoErr THEN 0
                             ELSE SeekTarget(fh, offset, whence),
                       !.touched = TRUE]
          /\ fh' = IF SrcSeekErr(fh, offset, whence) # NoErr THEN fh
                   ELSE [fh EXCEPT !.pos = SeekTarget(fh, offset, whence)]
     ELSE /\ ret' = FileResult("Seek", FALSE, SeekNotSupported)
          /\ UNCHANGED fh
  /\ UNCHANGED <<dirEntries, tgzVars>>

Write(recvNil, plen) ==
  /\ recvNil \/ fh.exists
  /\ ret' = FileResult("Write", recvNil, ErrReadOnlyWrap("file write not supported"))
  /\ UNCHANGED <<dirEntries, fh, tgzVars>>

Truncate(recvNil, size) ==
  /\ recvNil \/ fh.exists
  /\ ret' = FileResult("Truncate", recvNil, ErrReadOnlyWrap("truncate not supported"))
  /\ UNCHANGED <<dirEntries, fh, tgzVars>>

\* a Close that closes the source and forgets the flag
CloseHandle_NoFlag(h) == [h EXCEPT !.srcCloses = @ + 1]

\* what Close does to the handle: set the flag, close the source
CloseHandle(h) == [h EXCEPT !.isClosed = TRUE, !.srcCloses = @ + 1]

\* srcOk: what f.f.Close() returns, which Close does not look at
Close(recvNil, srcOk) ==
  /\ recvNil \/ fh.exists
  /\ IF recvNil
     THEN /\ ret' = FileResult("Close", TRUE, ErrNilFile)
          /\ UNCHANGED fh
     ELSE IF fh.isClosed
     THEN /\ ret' = FileResult("Close", FALSE, ErrClosed)
          /\ UNCHANGED fh
     ELSE /\ ret' = [FileResult("Close", FALSE, NoErr) EXCEPT !.touched = TRUE,
                                                             !.srcCloseFailed = ~srcOk]
          /\ fh' = CloseHandle(fh)
  /\ UNCHANGED <<dirEntries, tgzVars>>

\* f.f.Stat()
SrcStatErr(h) == IF SrcIsClosed(h) THEN ErrClosed ELSE NoErr

FileStat(recvNil) ==
  /\ recvNil \/ fh.exists
  /\ IF recvNil
     THEN ret' = FileResult("FileStat", TRUE, ErrNilFile)
     ELSE ret' = [FileResult("FileStat", FALSE, SrcStatErr(fh)) EXCEPT !.touched = TRUE]
  /\ UNCHANGED <<dirEntries, fh, tgzVars>>

Lock(recvNil) ==
  /\ recvNil \/ fh.exists
  /\ ret' = FileResult("Lock", recvNil, NoErr)
  /\ UNCHANGED <<dirEntries, fh, tgzVars>>

Unlock(recvNil) ==
  /\ recvNil \/ fh.exists
  /\ ret' = FileResult("Unlock", recvNil, NoErr)
  /\ UNCHANGED <<dirEntries, fh, tgzVars>>

(***************************************************************************)
(* Package tgz.  The billy filesystem handed to Extract is modelled as a   *)
(* tree: a function from cleaned paths (sequences of components) to nodes. *)
(* hostMapped says whether the backend's paths are the host operating      *)
(* system's paths (osfs rooted at "/"); if not (memfs, osfs rooted         *)
(* elsewhere) the host has a tree of its own, host.  hasChange says        *)
(* whether the backend implements billy.Change.                            *)
(***************************************************************************)
MaxEntries == 2     \* longest archive
MaxCleanups == 2    \* invocations of one cleanup function

Calls == {1, 2}

useDefaultTempDir == ""
tmpPrefix == "tmp-tgz-"

\* os.TempDir() and the names util.TempDir may pick under it
TempRoot == <<"tmp">>
TmpNames == {"tmp-tgz-1", "tmp-tgz-2"}
NoDir == <<>>

\* the tgz argument of each invocation
TgzPath(c) == IF c = 1 THEN <<"one.tgz">> ELSE <<"two.tgz">>

\* tar type flags
TypeReg == "0"
TypeSymlink == "2"
TypeDir == "5"

(***************************************************************************)
(* Archive entries: header.Name as its "/"-separated components (abs: the  *)
(* name starts with a separator; a trailing "" is a trailing separator),   *)
(* header.Typeflag, header.Mode and the payload.                           *)
(***************************************************************************)
TarEntry(abs, comps, typeflag, mode, payload) ==
  [abs |-> abs, comps |-> comps, typeflag |-> typeflag, mode |-> mode, payload |-> payload]

EntrySet ==
  { TarEntry(FALSE, <<"a", "">>, TypeDir, "0755", ""),
    TarEntry(FALSE, <<"a", "b.txt">>, TypeReg, "0644", "hello"),
    TarEntry(FALSE, <<"a", "b.txt">>, TypeReg, "0644", "bye"),
    TarEntry(FALSE, <<"..", "x", "">>, TypeDir, "0755", ""),
    TarEntry(TRUE, <<"c">>, TypeReg, "0644", "hello"),
    TarEntry(FALSE, <<"a", "l">>, TypeSymlink, "0777", "") }

RECURSIVE SeqsUpTo(_, _)
SeqsUpTo(S, n) ==
  IF n = 0 THEN {<<>>}
  ELSE LET shorter == SeqsUpTo(S, n - 1)
       IN shorter \cup {Append(s, x) : s \in {t \in shorter : Len(t) = n - 1}, x \in S}

\* exists: the file is on the backend; gzipOk: gzip.NewReader accepts it;
\* badAt = k > 0: the tar stream is corrupt where header k should be
Archive(exists, gzipOk, entries, badAt) ==
  [exists |-> exists, gzipOk |-> gzipOk, entries |-> entries, badAt |-> badAt]

ArchiveChoices ==
  {Archive(FALSE, FALSE, <<>>, 0), Archive(TRUE, FALSE, <<>>, 0)}
  \cup {Archive(TRUE, TRUE, es, 0) : es \in SeqsUpTo(EntrySet, MaxEntries)}
  \cup {Archive(TRUE, TRUE, es, Len(es) + 1) : es \in SeqsUpTo(EntrySet, 1)}

(***************************************************************************)
(* Paths.                                                                  *)
(***************************************************************************)
\* filepath.Clean of a rooted path: drop "" and ".", resolve ".." (at the
\* root ".." stays at the root)
RECURSIVE CleanFrom(_, _)
CleanFrom(acc, comps) ==
  IF comps = <<>> THEN acc
  ELSE LET h == Head(comps)
           t == Tail(comps)
       IN IF h = "" \/ h = "." THEN CleanFrom(acc, t)
          ELSE IF h = ".." THEN CleanFrom(IF acc = <<>> THEN acc
                                          ELSE SubSeq(acc, 1, Len(acc) - 1), t)
          ELSE CleanFrom(Append(acc, h), t)

Clean(comps) == CleanFrom(<<>>, comps)

\* dst := dstPath + "/" + header.Name, as components before cleaning
Dst(dstPath, e) == dstPath \o (IF e.abs THEN <<"">> ELSE <<>>) \o e.comps

IsPrefix(p, q) == Len(p) <= Len(q) /\ SubSeq(q, 1, Len(p)) = p

Prefixes(p) == {SubSeq(p, 1, k) : k \in 1..Len(p)}
ProperPrefixes(p) == {SubSeq(p, 1, k) : k \in 1..(Len(p) - 1)}

(***************************************************************************)
(* The backend's operations on a tree.                                     *)
(***************************************************************************)
DirNode(mode) == [kind |-> "dir", mode |-> mode, data |-> ""]
FileNode(mode, data) == [kind |-> "file", mode |-> mode, data |-> data]

IsDir(t, p) == p = <<>> \/ (p \in DOMAIN t /\ t[p].kind = "dir")
IsFile(t, p) == p \in DOMAIN t /\ t[p].kind = "file"

\* fs.MkdirAll(path, perm) can be done: no component of the path is a file
CanMkdirAll(t, p) == \A q \in Prefixes(p) : ~IsFile(t, q)

MkdirAllFS(t, p, mode) ==
  [q \in DOMAIN t \cup Prefixes(p) |-> IF q \in DOMAIN t THEN t[q] ELSE DirNode(mode)]

\* fs.Create(path) can be done: the path is no directory, no parent is a file
CanCreate(t, p) == p # <<>> /\ ~IsDir(t, p) /\ \A q \in ProperPrefixes(p) : ~IsFile(t, q)

\* Create makes the missing parents, and creates or truncates the file
CreateFS(t, p) ==
  [q \in DOMAIN t \cup Prefixes(p) |->
     IF q = p THEN (IF q \in DOMAIN t THEN FileNode(t[q].mode, "") ELSE FileNode("0666", ""))
     ELSE IF q \in DOMAIN t THEN t[q]
     ELSE DirNode("0755")]

\* io.Copy(w, contents): the payload becomes the file's content
WriteFS(t, p, data) == IF IsFile(t, p) THEN [t EXCEPT ![p].data = data] ELSE t

\* fs.Chmod(path, mode)
ChmodFS(t, p, mode) == IF p \in DOMAIN t THEN [t EXCEPT ![p].mode = mode] ELSE t

\* os.RemoveAll(path)
RemoveAllFS(t, p) == [q \in {r \in DOMAIN t : ~IsPrefix(p, r)} |-> t[q]]

EmptyTree == [q \in {} |-> DirNode("0755")]

(***************************************************************************)
(* Extract, step by step.  Each backend call is one step; ok = FALSE is    *)
(* the backend failing that call for a reason of its own (permissions,     *)
(* disk full, ...).                                                        *)
(***************************************************************************)
NilFS == [isNil |-> TRUE, root |-> NoDir]
ChrootFS(root) == [isNil |-> FALSE, root |-> root]

InitCall(a, pc0) ==
  [pc |-> pc0, archive |-> a,
   fOpen |-> FALSE, fCloses |-> 0,        \* the archive handle f
   dirName |-> NoDir,                     \* "" until util.TempDir succeeds
   idx |-> 0,                             \* headers read so far by src.Next()
   dst |-> <<>>, mode |-> "",             \* unTar's dst and mode of the entry
   wOpen |-> FALSE, wCreated |-> 0, wCloses |-> 0,   \* makeFile's handles w
   ferr |-> NoErr,                        \* makeFile's result err
   ops |-> <<>>,                          \* what makeFile did for the current entry
   fCloseFailed |-> FALSE,                \* f.Close() returned an error
   wCloseFailed |-> FALSE,                \* some w.Close() returned an error
   err |-> NoErr, errTypeflag |-> "", errName |-> <<>>,
   d |-> NilFS,
   openFailed |-> FALSE,                  \* fs.Open(tgz) returned an error
   envFault |-> FALSE,                    \* some backend call failed by itself
   touched |-> {},                        \* paths unTar created or changed
   cleanups |-> 0]

ErrUnsupported == ErrPlain("Unable to untar type : %c in file %s")

\* the step of one invocation: x is ex[c] before, y after
SetCall(c, y) == ex' = [ex EXCEPT ![c] = y]

\* an error that is noted while unTar goes on with the next entry
ToDeferredClose_GoesOn(x, e) == [x EXCEPT !.pc = "next", !.err = e]

\* a return that skips the deferred f.Close()
ToDeferredClose_NoClose(x, e) == [x EXCEPT !.pc = "returned", !.err = e]

\* the return of Extract once the deferred f.Close() is pending
ToDeferredClose(x, e) == [x EXCEPT !.pc = "deferClose", !.err = e]

\* an Extract that goes on to util.TempDir although fs.Open failed
OpenFails_GoesOn(x, e, fault) ==
  [x EXCEPT !.pc = "tempdir", !.err = e, !.openFailed = TRUE, !.envFault = fault]

\* "f, err := fs.Open(tgz); if err != nil { return }"
OpenFails(x, e, fault) ==
  [x EXCEPT !.pc = "returned", !.err = e, !.openFailed = TRUE, !.envFault = fault]

ExtractOpen(c, ok) ==
  LET x == ex[c]
  IN /\ x.pc = "start"
     /\ IF ~x.archive.exists THEN SetCall(c, OpenFails(x, ErrNotExist, FALSE))
        ELSE IF ~ok THEN SetCall(c, OpenFails(x, ErrPlain("permission denied"), TRUE))
        ELSE SetCall(c, [x EXCEPT !.pc = "tempdir", !.fOpen = TRUE])
     /\ UNCHANGED <<tree, host, hostMapped, hasChange, embedVars>>

\* "dirName, err = util.TempDir(fs, useDefaultTempDir, tmpPrefix)"
ExtractTempDir(c, name, ok) ==
  LET x == ex[c]
      try == Append(TempRoot, name)
  IN /\ x.pc = "tempdir"
     /\ IF ok /\ CanMkdirAll(tree, try)
        THEN /\ tree' = MkdirAllFS(tree, try, "0700")
             /\ SetCall(c, [x EXCEPT !.pc = "decode", !.dirName = try])
        ELSE /\ SetCall(c, [ToDeferredClose(x, ErrPlain("tempdir failed"))
                              EXCEPT !.envFault = TRUE])
             /\ UNCHANGED tree
     /\ UNCHANGED <<host, hostMapped, hasChange, embedVars>>

\* "tar, err := zipTarReader(f)"
ExtractZipTarReader(c) ==
  LET x == ex[c]
  IN /\ x.pc = "decode"
     /\ IF x.archive.gzipOk
        THEN SetCall(c, [x EXCEPT !.pc = "next"])
        ELSE SetCall(c, ToDeferredClose(x, ErrPlain("gzip: invalid header")))
     /\ UNCHANGED <<tree, host, hostMapped, hasChange, embedVars>>

\* unTar: "header, err := src.Next()" and the switch on header.Typeflag
UnTarNext(c) ==
  LET x == ex[c]
      k == x.idx + 1
  IN /\ x.pc = "next"
     /\ IF x.archive.badAt = k
        THEN SetCall(c, ToDeferredClose(x, ErrPlain("archive/tar: invalid tar header")))
        ELSE IF k > Len(x.archive.entries)
        THEN SetCall(c, [x EXCEPT !.pc = "chroot"])
        ELSE LET header == x.archive.entries[k]
                 y == [x EXCEPT !.idx = k, !.dst = Dst(x.dirName, header),
                                !.mode = header.mode]
             IN IF header.typeflag = TypeDir THEN SetCall(c, [y EXCEPT !.pc = "mkdir"])
                ELSE IF header.typeflag = TypeReg THEN SetCall(c, [y EXCEPT !.pc = "create"])
                ELSE SetCall(c, [ToDeferredClose(y, ErrUnsupported) EXCEPT
                                   !.errTypeflag = header.typeflag,
                                   !.errName = header.comps])
     /\ UNCHANGED <<tree, host, hostMapped, hasChange, embedVars>>

\* "err := fs.MkdirAll(dst, mode)"
UnTarMkdirAll(c, ok) ==
  LET x == ex[c]
      p == Clean(x.dst)
  IN /\ x.pc = "mkdir"
     /\ IF ok /\ CanMkdirAll(tree, p)
        THEN /\ tree' = MkdirAllFS(tree, p, x.mode)
             /\ SetCall(c, [x EXCEPT !.pc = "next", !.touched = @ \cup {p}])
        ELSE /\ SetCall(c, [ToDeferredClose(x, ErrPlain("mkdirall failed"))
                              EXCEPT !.envFault = @ \/ ~ok])
             /\ UNCHANGED tree
     /\ UNCHANGED <<host, hostMapped, hasChange, embedVars>>

\* makeFile: "w, err := fs.Create(path); if err != nil { return err }"
MakeFileCreate(c, ok) ==
  LET x == ex[c]
      p == Clean(x.dst)
  IN /\ x.pc = "create"
     /\ IF ok /\ CanCreate(tree, p)
        THEN /\ tree' = CreateFS(tree, p)
             /\ SetCall(c, [x EXCEPT !.pc = "copy", !.wOpen = TRUE, !.wCreated = @ + 1,
                                     !.ferr = NoErr, !.touched = @ \cup {p},
                                     !.ops = <<"create">>])
        ELSE /\ SetCall(c, [ToDeferredClose(x, ErrPlain("create failed"))
                              EXCEPT !.envFault = @ \/ ~ok])
             /\ UNCHANGED tree
     /\ UNCHANGED <<host, hostMapped, hasChange, embedVars>>

\* a makeFile that calls Chmod without the type test
AfterCopy_Always(change) == "chmod"

\* where makeFile goes after a successful io.Copy: the type test fs.(billy.Change)
AfterCopy(change) == IF change THEN "chmod" ELSE "wclose"

\* makeFile: "_, err = io.Copy(w, contents); if err != nil { return err }"
MakeFileCopy(c, ok) ==
  LET x == ex[c]
      p == Clean(x.dst)
      header == x.archive.entries[x.idx]
  IN /\ x.pc = "copy"
     /\ IF ok
        THEN /\ tree' = WriteFS(tree, p, header.payload)
             /\ SetCall(c, [x EXCEPT !.pc = AfterCopy(hasChange),
                                     !.ops = Append(@, "copy")])
        ELSE /\ SetCall(c, [x EXCEPT !.pc = "wclose", !.ferr = ErrPlain("copy failed"),
                                     !.envFault = TRUE,
                                     !.ops = Append(@, "copy failed")])
             /\ UNCHANGED tree
     /\ UNCHANGED <<host, hostMapped, hasChange, embedVars>>

\* makeFile: "if err = fs.Chmod(path, mode); err != nil { return err }"
MakeFileChmod(c, ok) ==
  LET x == ex[c]
      p == Clean(x.dst)
  IN /\ x.pc = "chmod"
     /\ IF ok /\ p \in DOMAIN tree
        THEN /\ tree' = ChmodFS(tree, p, x.mode)
             /\ SetCall(c, [x EXCEPT !.pc = "wclose", !.ops = Append(@, "chmod")])
        ELSE /\ SetCall(c, [x EXCEPT !.pc = "wclose", !.ferr = ErrPlain("chmod failed"),
                                     !.envFault = @ \/ ~ok,
                                     !.ops = Append(@, "chmod failed")])
             /\ UNCHANGED tree
     /\ UNCHANGED <<host, hostMapped, hasChange, embedVars>>

\* the deferred "errClose := w.Close(); if err == nil { err = errClose }"
CloseResult(err, errClose) == IF err = NoErr THEN errClose ELSE err

\* makeFile's deferred close, its return, and unTar's "if err != nil { return err }"
MakeFileClose(c, ok) ==
  LET x == ex[c]
      errClose == IF ok THEN NoErr ELSE ErrPlain("close failed")
      e == CloseResult(x.ferr, errClose)
      y == [x EXCEPT !.wOpen = FALSE, !.wCloses = @ + 1, !.ferr = e,
                     !.envFault = @ \/ ~ok,
                     !.wCloseFailed = @ \/ ~ok,
                     !.ops = Append(@, IF ok THEN "close" ELSE "close failed")]
  IN /\ x.pc = "wclose"
     /\ IF e = NoErr THEN SetCall(c, [y EXCEPT !.pc = "next"])
                     ELSE SetCall(c, ToDeferredClose(y, e))
     /\ UNCHANGED <<tree, host, hostMapped, hasChange, embedVars>>

\* "d, err = fs.Chroot(dirName); return"
ExtractChroot(c, ok) ==
  LET x == ex[c]
  IN /\ x.pc = "chroot"
     /\ IF ok
        THEN SetCall(c, [x EXCEPT !.pc = "deferClose", !.d = ChrootFS(x.dirName)])
        ELSE SetCall(c, [ToDeferredClose(x, ErrPlain("chroot failed"))
                           EXCEPT !.envFault = TRUE])
     /\ UNCHANGED <<tree, host, hostMapped, hasChange, embedVars>>

\* the deferred "errClose := f.Close(); if err == nil { err = errClose }"
ExtractDeferClose(c, ok) ==
  LET x == ex[c]
      errClose == IF ok THEN NoErr ELSE ErrPlain("close failed")
  IN /\ x.pc = "deferClose"
     /\ SetCall(c, [x EXCEPT !.pc = "returned", !.fOpen = FALSE, !.fCloses = @ + 1,
                             !.err = CloseResult(x.err, errClose),
                             !.envFault = @ \/ ~ok,
                             !.fCloseFailed = ~ok])
     /\ UNCHANGED <<tree, host, hostMapped, hasChange, embedVars>>

\* cleanup: "if dirName != "" { _ = os.RemoveAll(dirName) }"
Cleanup(c) ==
  LET x == ex[c]
  IN /\ x.pc = "returned"
     /\ x.cleanups < MaxCleanups
     /\ SetCall(c, [x EXCEPT !.cleanups = @ + 1])
     /\ IF x.dirName = NoDir THEN UNCHANGED <<tree, host>>
        ELSE IF hostMapped
        THEN /\ tree' = RemoveAllFS(tree, x.dirName)
             /\ UNCHANGED host
        ELSE /\ host' = RemoveAllFS(host, x.dirName)
             /\ UNCHANGED tree
     /\ UNCHANGED <<hostMapped, hasChange, embedVars>>

(***************************************************************************)
(* The scoped view that Extract returns: billy's chroot helper resolves a  *)
(* path under the root and refuses one that leaves it.                     *)
(***************************************************************************)
RECURSIVE Crosses(_, _)
Crosses(depth, comps) ==
  IF comps = <<>> THEN FALSE
  ELSE LET h == Head(comps)
       IN IF h = "" \/ h = "." THEN Crosses(depth, Tail(comps))
          ELSE IF h = ".." THEN (depth = 0 \/ Crosses(depth - 1, Tail(comps)))
          ELSE Crosses(depth + 1, Tail(comps))

\* the node a path designates in the view d, or NoNode
NoNode == [kind |-> "none", mode |-> "", data |-> ""]
ViewNode(d, abs, comps) ==
  IF d.isNil \/ (~abs /\ Crosses(0, comps)) THEN NoNode
  ELSE LET p == d.root \o Clean(comps)
       IN IF p \in DOMAIN tree THEN tree[p] ELSE NoNode

(***************************************************************************)
(* Specifications.  SpecEmbed runs the embedfs operations, SpecTgz one     *)
(* Extract invocation followed by calls of its cleanup function.           *)
(***************************************************************************)
\* the backend before Extract: the temp root and the archives that exist
InitTree(archives) ==
  [q \in {TempRoot} \cup {TgzPath(c) : c \in {b \in Calls : archives[b].exists}} |->
     IF q = TempRoot THEN DirNode("1777") ELSE FileNode("0644", "tgz")]

\* a host that happens to hold a directory named like a temp directory
HostWithDir ==
  [q \in {TempRoot, Append(TempRoot, "tmp-tgz-1"),
          Append(Append(TempRoot, "tmp-tgz-1"), "keep")} |->
     IF Len(q) = 3 THEN FileNode("0644", "kept") ELSE DirNode("0755")]

HostChoices(mapped) == IF mapped THEN {EmptyTree} ELSE {EmptyTree, HostWithDir}

NoArchive == Archive(FALSE, FALSE, <<>>, 0)

InitEmbedIdle ==
  /\ dirEntries = <<>>
  /\ fh = NoHandle
  /\ ret = NoRet

InitTgzIdle ==
  /\ hostMapped = TRUE
  /\ hasChange = TRUE
  /\ host = EmptyTree
  /\ ex = [c \in Calls |-> InitCall(NoArchive, "idle")]
  /\ tree = InitTree([c \in Calls |-> NoArchive])

InitEmbed ==
  /\ dirEntries \in DistinctSeqs(EntryNames, MaxDirLen)
  /\ fh = NoHandle
  /\ ret = NoRet
  /\ InitTgzIdle

NextEmbed ==
  \/ \E filename \in FileNames : Create(filename)
  \/ \E filename \in FileNames, statOk \in BOOLEAN : Open(filename, statOk)
  \/ \E filename \in FileNames, flag \in FlagChoices, statOk \in BOOLEAN :
       OpenFile(filename, flag, statOk)
  \/ \E kind \in {"nil", "embed", "dir", "os"}, statOk \in BOOLEAN :
       NewFileDirect(kind, statOk)
  \/ \E filename \in FileNames : Stat(filename)
  \/ \E path \in FileNames : ReadDir(path)
  \/ \E path \in FileNames : MkdirAll(path)
  \/ \E from \in FileNames, to \in FileNames : Rename(from, to)
  \/ \E filename \in FileNames : Remove(filename)
  \/ \E recvNil \in BOOLEAN, blen \in 1..MaxBuf : Read(recvNil, blen)
  \/ \E recvNil \in BOOLEAN, blen \in 1..MaxBuf, off \in 0..SrcLen :
       ReadAt(recvNil, blen, off)
  \/ \E recvNil \in BOOLEAN, offset \in (0 - SrcLen)..SrcLen, whence \in 0..2 :
       Seek(recvNil, offset, whence)
  \/ \E recvNil \in BOOLEAN, plen \in 0..MaxBuf : Write(recvNil, plen)
  \/ \E recvNil \in BOOLEAN, size \in 0..SrcLen : Truncate(recvNil, size)
  \/ \E recvNil \in BOOLEAN, srcOk \in BOOLEAN : Close(recvNil, srcOk)
  \/ \E recvNil \in BOOLEAN : FileStat(recvNil)
  \/ \E recvNil \in BOOLEAN : Lock(recvNil)
  \/ \E recvNil \in BOOLEAN : Unlock(recvNil)

SpecEmbed == InitEmbed /\ [][NextEmbed]_vars

InitTgz ==
  /\ InitEmbedIdle
  /\ hostMapped \in BOOLEAN
  /\ hasChange \in BOOLEAN
  /\ host \in HostChoices(hostMapped)
  /\ \E a \in ArchiveChoices :
       /\ ex = [c \in Calls |-> IF c = 1 THEN InitCall(a, "start")
                                ELSE InitCall(NoArchive, "idle")]
       /\ tree = InitTree([c \in Calls |-> IF c = 1 THEN a ELSE NoArchive])

Step(c) ==
  \/ \E ok \in BOOLEAN : ExtractOpen(c, ok)
  \/ \E name \in TmpNames, ok \in BOOLEAN : ExtractTempDir(c, name, ok)
  \/ ExtractZipTarReader(c)
  \/ UnTarNext(c)
  \/ \E ok \in BOOLEAN : UnTarMkdirAll(c, ok)
  \/ \E ok \in BOOLEAN : MakeFileCreate(c, ok)
  \/ \E ok \in BOOLEAN : MakeFileCopy(c, ok)
  \/ \E ok \in BOOLEAN : MakeFileChmod(c, ok)
  \/ \E ok \in BOOLEAN : MakeFileClose(c, ok)
  \/ \E ok \in BOOLEAN : ExtractChroot(c, ok)
  \/ \E ok \in BOOLEAN : ExtractDeferClose(c, ok)
  \/ Cleanup(c)

NextTgz == Step(1)

SpecTgz == InitTgz /\ [][NextTgz]_vars

(***************************************************************************)
(* Properties of the embedded backend, stated for SpecEmbed.               *)
(***************************************************************************)
MutationOps == {"Create", "MkdirAll", "Rename", "Remove", "Write", "Truncate"}
MutationFlags == {"O_CREATE", "O_APPEND", "O_TRUNC", "O_RDWR", "O_WRONLY"}
IsMutationCall(r) ==
  r.op \in MutationOps \/ (r.op = "OpenFile" /\ r.flag \cap MutationFlags # {})

\* C1: the backend's capabilities lack Write, and every step that is a call of
\* Create, MkdirAll, Rename, Remove, OpenFile with a writing flag, Write or
\* Truncate returns an error wrapping ErrReadOnly, hands out no file, does not
\* touch the underlying source and leaves the handle and the source as they
\* were; Write reports 0 bytes.
C1_MutationsRefused ==
  [][ IsMutationCall(ret') =>
        /\ "Write" \notin Capabilities
        /\ ret'.err.wraps = "ErrReadOnly"
        /\ ~ret'.hasFile
        /\ ~ret'.touched
        /\ ret'.n = 0
        /\ fh' = fh
        /\ dirEntries' = dirEntries ]_vars

C1_Witness ==
  /\ ret.op = "OpenFile"
  /\ ret.flag = {"O_WRONLY"}
  /\ ret.err.wraps = "ErrReadOnly"
  /\ fh.exists /\ ~fh.isClosed /\ fh.pos > 0

\* C7: on one handle, the closed flag never goes back to false and the source
\* is closed at most once; the flag changes only in a Close that returns nil
\* and closes the source; a Close on an open handle returns nil and sets the
\* flag, a Close on a closed handle returns ErrClosed and changes nothing.
C7_CloseTwice ==
  [][ (fh.exists /\ fh'.id = fh.id) =>
        /\ fh.isClosed => fh'.isClosed
        /\ fh'.srcCloses <= 1
        /\ fh'.isClosed # fh.isClosed =>
             /\ ret'.op = "Close" /\ ret'.err = NoErr
             /\ fh'.srcCloses = fh.srcCloses + 1
        /\ (ret'.op = "Close" /\ ~ret'.recvNil /\ ret' # ret) =>
             IF fh.isClosed
             THEN ret'.err = ErrClosed /\ ret'.err # NoErr /\ fh' = fh
             ELSE ret'.err = NoErr /\ fh'.isClosed ]_vars

C7_Witness ==
  /\ fh.exists /\ fh.isClosed /\ fh.srcCloses = 1
  /\ ret.op = "Close" /\ ret.wasClosed /\ ret.err = ErrClosed

HandleOps == {"Read", "ReadAt", "Seek", "Write", "Truncate", "FileStat"}

\* C8: an operation Read, ReadAt, Seek, Write, Truncate or Stat on a handle
\* that was closed before the call fails with a closed-handle error.
C8_ClosedHandleFails ==
  (ret.op \in HandleOps /\ ret.wasClosed) => ret.err.wraps = "ErrClosed"

IsSortedByName(list) ==
  \A i \in 1..Len(list), j \in 1..Len(list) :
    i < j => (~list[i].isNil /\ ~list[j].isNil /\ list[i].name <= list[j].name)

\* C9: a ReadDir of a directory returns normally, and what it returns is
\* sorted by name in ascending order.
C9_ReadDirSorted ==
  (ret.op = "ReadDir" /\ ret.err = NoErr) => (~ret.panic /\ IsSortedByName(ret.list))

(***************************************************************************)
(* Properties of Extract, stated for SpecTgz.                              *)
(***************************************************************************)
WellFormed(a) ==
  /\ a.exists /\ a.gzipOk /\ a.badAt = 0
  /\ \A k \in 1..Len(a.entries) : a.entries[k].typeflag \in {TypeDir, TypeReg}

\* the entry e is in the view d: a directory for a directory entry, a file
\* holding exactly the payload for a regular-file entry
EntryInView(d, e) ==
  LET n == ViewNode(d, e.abs, e.comps)
  IN IF e.typeflag = TypeDir THEN n.kind = "dir"
     ELSE n.kind = "file" /\ n.data = e.payload

\* C2: when Extract has returned for a well-formed archive of directory and
\* regular-file entries, on a backend that failed no call, the error is nil,
\* the result is the view rooted at the temp directory, and in that view every
\* directory entry is a directory and every regular-file entry reads as its
\* payload.
C2_ExtractWellFormed ==
  \A c \in Calls :
    LET x == ex[c]
    IN (x.pc = "returned" /\ x.cleanups = 0 /\ WellFormed(x.archive) /\ ~x.envFault) =>
         /\ x.err = NoErr
         /\ x.dirName # NoDir
         /\ x.d = ChrootFS(x.dirName)
         /\ \A k \in 1..Len(x.archive.entries) : EntryInView(x.d, x.archive.entries[k])

\* C3: once cleanup has been invoked for a call that created its temp
\* directory, that directory is no longer on the backend.
C3_CleanupRemovesTempDir ==
  \A c \in Calls :
    (ex[c].cleanups > 0 /\ ex[c].dirName # NoDir) => ex[c].dirName \notin DOMAIN tree

\* the entry e is present in the view d, as a directory or as a file
EntryPresent(d, e) ==
  ViewNode(d, e.abs, e.comps).kind = (IF e.typeflag = TypeDir THEN "dir" ELSE "file")

\* C4: when unTar stops at an entry of an unsupported kind, the error carries
\* that entry's type and name, and until cleanup is invoked the temp directory
\* exists and holds every earlier entry.
C4_UnsupportedEntry ==
  \A c \in Calls :
    LET x == ex[c]
    IN (x.pc \in {"deferClose", "returned"} /\ x.err = ErrUnsupported) =>
         /\ x.idx \in 1..Len(x.archive.entries)
         /\ x.archive.entries[x.idx].typeflag \notin {TypeDir, TypeReg}
         /\ x.errTypeflag = x.archive.entries[x.idx].typeflag
         /\ x.errName = x.archive.entries[x.idx].comps
         /\ x.cleanups = 0 =>
              /\ IsDir(tree, x.dirName) /\ x.dirName # NoDir
              /\ \A k \in 1..(x.idx - 1) :
                   EntryPresent(ChrootFS(x.dirName), x.archive.entries[k])

\* C5: from the moment fs.Open(tgz) has failed, Extract has returned that error
\* with a nil filesystem, no temp directory is allocated, the archive handle
\* was never opened or closed, and no step (the failing open, an invocation of
\* cleanup) changes the backend or the host.
C5_OpenFails ==
  [][ \A c \in Calls :
        ex'[c].openFailed =>
          /\ ex'[c].pc = "returned"
          /\ ex'[c].err = (IF ex'[c].archive.exists THEN ErrPlain("permission denied")
                                                     ELSE ErrNotExist)
          /\ ex'[c].d = NilFS
          /\ ex'[c].dirName = NoDir
          /\ ~ex'[c].fOpen /\ ex'[c].fCloses = 0
          /\ ex'[c].touched = {}
          /\ tree' = tree
          /\ host' = host ]_vars

C5_Witness ==
  /\ ex[1].openFailed /\ ex[1].err = ErrNotExist
  /\ ex[1].cleanups = MaxCleanups
  /\ ~hostMapped /\ host = HostWithDir

\* C6: when Extract has returned an error after its temp directory was
\* created (other than a failure of Chroot itself), the returned filesystem is
\* the view of that directory; it is nil only if no temp directory was created.
C6_PartialStateReturned ==
  \A c \in Calls :
    LET x == ex[c]
    IN (x.pc = "returned" /\ x.err # NoErr /\ x.err # ErrPlain("chroot failed")) =>
         /\ x.dirName # NoDir => x.d = ChrootFS(x.dirName)
         /\ x.d.isNil => x.dirName = NoDir

\* C10: every path that unTar and makeFile create or change lies inside the
\* temp directory of the call.
C10_InsideTempRoot ==
  \A c \in Calls : \A p \in ex[c].touched : IsPrefix(ex[c].dirName, p)

\* C11: when Extract has returned and a close of the archive handle or of a
\* destination file failed, the error Extract returns is that close failure,
\* whatever went wrong before it.
C11_CloseErrorReported ==
  \A c \in Calls :
    LET x == ex[c]
    IN (x.pc = "returned" /\ (x.fCloseFailed \/ x.wCloseFailed)) =>
         x.err = ErrPlain("close failed")

\* C14: a ReadDir that returns without error returns normally, with as many
\* records as the underlying listing has entries and no empty record.
C14_ReadDirOnePerEntry ==
  (ret.op = "ReadDir" /\ ret.err = NoErr) =>
    /\ ~ret.panic
    /\ Len(ret.list) = Len(dirEntries)
    /\ \A i \in 1..Len(ret.list) : ~ret.list[i].isNil

\* C16: on a handle whose source is no *os.File, a Seek or ReadAt returns 0
\* and a not-supported error and leaves the handle as it was; a Lock or
\* Unlock returns nil and leaves the handle as it was.
C16_NoRandomAccess ==
  [][ /\ (ret'.op \in {"Seek", "ReadAt"} /\ ~ret'.recvNil /\ ~fh.std) =>
           /\ ret'.err = (IF ret'.op = "Seek" THEN ErrPlain("seek not supported")
                                              ELSE ErrPlain("readat not supported"))
           /\ ret'.err # NoErr
           /\ ret'.n = 0
           /\ fh' = fh
      /\ ret'.op \in {"Lock", "Unlock"} =>
           /\ ret'.err = NoErr
           /\ fh' = fh
           /\ dirEntries' = dirEntries ]_vars

C16_Witness ==
  /\ ret.op = "Seek" /\ ~ret.recvNil
  /\ ret.err = ErrPlain("seek not supported") /\ ret.n = 0
  /\ fh.exists /\ ~fh.std /\ fh.pos > 0 /\ ~fh.isClosed

ChmodOps == {"chmod", "chmod failed"}
CloseOps == {"close", "close failed"}

\* C12 as stated: for a regular-file entry the close comes before the chmod
\* (the destination file is closed when Chmod is called), and once the file
\* is done Chmod was called if and only if the backend implements it.
C12_CloseBeforeChmod ==
  \A c \in Calls :
    LET x == ex[c]
        o == x.ops
    IN /\ x.pc = "chmod" => ~x.wOpen
       /\ \A i \in 1..Len(o) :
            o[i] \in ChmodOps => \E j \in 1..(i - 1) : o[j] \in CloseOps
       /\ (o # <<>> /\ x.pc \notin {"copy", "chmod", "wclose"}) =>
            ((\E i \in 1..Len(o) : o[i] \in ChmodOps) <=> hasChange)

\* C12 as amended: makeFile creates, copies exactly the payload, calls Chmod
\* third if and only if the copy succeeded and the backend implements Chmod,
\* and closes last; the destination file is open while Chmod is called.
C12_ChmodBeforeClose ==
  \A c \in Calls :
    LET x == ex[c]
        o == x.ops
    IN /\ Len(o) >= 1 => o[1] = "create"
       /\ Len(o) >= 2 => o[2] \in {"copy", "copy failed"}
       /\ \A i \in 1..Len(o) :
            /\ o[i] \in ChmodOps => (i = 3 /\ o[2] = "copy" /\ hasChange)
            /\ o[i] \in CloseOps => (i = Len(o) /\ i >= 3)
       /\ x.pc \in {"copy", "chmod", "wclose"} <=> x.wOpen
       /\ x.wOpen => (o # <<>> /\ o[Len(o)] \notin CloseOps)
       /\ (x.pc \in {"chmod", "wclose"} /\ o[2] = "copy") =>
            /\ IsFile(tree, Clean(x.dst))
            /\ tree[Clean(x.dst)].data = x.archive.entries[x.idx].payload
       /\ x.pc = "chmod" => o = <<"create", "copy">>
       /\ (o # <<>> /\ o[Len(o)] \in CloseOps) =>
            ((\E i \in 1..Len(o) : o[i] \in ChmodOps) <=> (hasChange /\ o[2] = "copy"))

C12_Witness ==
  /\ hasChange
  /\ ex[1].ops = <<"create", "copy", "chmod", "close">>
  /\ ex[1].pc = "returned" /\ ex[1].err = NoErr
  /\ tree[Clean(ex[1].dst)].mode = "0644"

\* a failure has occurred in the invocation x
Failed(x) == x.err # NoErr \/ x.ferr # NoErr

\* C13: once a step of Extract has failed, no further header is read, nothing
\* further is created or written, Chroot is not called, the backend changes
\* only by an invocation of cleanup, and Extract returns a non-nil error.
C13_StopsAtFirstFailure ==
  [][ \A c \in Calls :
        LET x == ex[c]
            y == ex'[c]
        IN Failed(x) =>
             /\ Failed(y)
             /\ y.idx = x.idx
             /\ y.pc \in {"wclose", "deferClose", "returned"}
             /\ y.pc = "returned" => y.err # NoErr
             /\ y.d = x.d
             /\ y.touched = x.touched
             /\ y.wCreated = x.wCreated
             /\ y.cleanups = x.cleanups => tree' = tree ]_vars

C13_Witness ==
  /\ ex[1].pc = "returned"
  /\ ex[1].err = ErrPlain("chmod failed")
  /\ ex[1].idx = 1 /\ Len(ex[1].archive.entries) = 2
  /\ ex[1].d = NilFS
  /\ ex[1].cleanups = 0

\* C17: the archive handle is closed at most once, and exactly once by the
\* time Extract returns unless fs.Open failed (then never); every destination
\* file that makeFile created is closed once; a returned Extract holds no
\* open handle.
C17_HandlesClosedOnce ==
  \A c \in Calls :
    LET x == ex[c]
    IN /\ x.fCloses <= 1
       /\ x.fOpen => x.fCloses = 0
       /\ x.openFailed => (~x.fOpen /\ x.fCloses = 0)
       /\ x.wCloses <= x.wCreated
       /\ x.wOpen <=> x.wCreated = x.wCloses + 1
       /\ x.pc \in {"next", "mkdir", "create", "chroot", "deferClose", "returned"} =>
            x.wCloses = x.wCreated
       /\ x.pc = "returned" =>
            /\ ~x.fOpen /\ ~x.wOpen
            /\ x.fCloses = (IF x.openFailed THEN 0 ELSE 1)

C17_Witness ==
  /\ ex[1].pc = "returned"
  /\ ex[1].wCreated = 2 /\ ex[1].wCloses = 2
  /\ ex[1].fCloses = 1
  /\ ex[1].err = ErrPlain("copy failed")

\* C18: an invocation of cleanup removes nothing but the temp directory of
\* its call from the backend and nothing from the host (the archive file
\* stays); the first invocation changes nothing exactly when no temp
\* directory was allocated, and a later invocation changes nothing.
C18_CleanupIdempotent ==
  [][ \A c \in Calls :
        LET x == ex[c]
            y == ex'[c]
        IN y.cleanups = x.cleanups + 1 =>
             /\ host' = host
             /\ DOMAIN tree' \subseteq DOMAIN tree
             /\ \A p \in DOMAIN tree :
                  IF p \in DOMAIN tree' THEN tree'[p] = tree[p]
                  ELSE x.dirName # NoDir /\ IsPrefix(x.dirName, p)
             /\ x.cleanups = 0 => ((tree' = tree) <=> (x.dirName = NoDir))
             /\ x.cleanups > 0 => tree' = tree ]_vars

(***************************************************************************)
(* Two Extract invocations on one backend, interleaved step by step.       *)
(* util.TempDir hands each invocation a name that the other does not hold. *)
(***************************************************************************)
ConcEntrySet ==
  { TarEntry(FALSE, <<"a", "">>, TypeDir, "0755", ""),
    TarEntry(FALSE, <<"a", "b.txt">>, TypeReg, "0644", "hello"),
    TarEntry(FALSE, <<"b.txt">>, TypeReg, "0644", "bye"),
    TarEntry(FALSE, <<"..", "tmp-tgz-2", "b.txt">>, TypeReg, "0644", "bye") }

ConcArchives == {Archive(TRUE, TRUE, <<e>>, 0) : e \in ConcEntrySet}

\* the temp names held by the invocations other than c
UsedNames(c) ==
  {ex[o].dirName[Len(ex[o].dirName)] : o \in {b \in Calls \ {c} : ex[b].dirName # NoDir}}

InitConc ==
  /\ InitEmbedIdle
  /\ hostMapped \in BOOLEAN
  /\ hasChange \in BOOLEAN
  /\ host = EmptyTree
  /\ \E a \in [Calls -> ConcArchives] :
       /\ ex = [c \in Calls |-> InitCall(a[c], "start")]
       /\ tree = InitTree(a)

StepConc(c) ==
  \/ \E ok \in BOOLEAN : ExtractOpen(c, ok)
  \/ \E name \in TmpNames \ UsedNames(c), ok \in BOOLEAN : ExtractTempDir(c, name, ok)
  \/ ExtractZipTarReader(c)
  \/ UnTarNext(c)
  \/ \E ok \in BOOLEAN : UnTarMkdirAll(c, ok)
  \/ \E ok \in BOOLEAN : MakeFileCreate(c, ok)
  \/ \E ok \in BOOLEAN : MakeFileCopy(c, ok)
  \/ \E ok \in BOOLEAN : MakeFileChmod(c, ok)
  \/ \E ok \in BOOLEAN : MakeFileClose(c, ok)
  \/ \E ok \in BOOLEAN : ExtractChroot(c, ok)
  \/ \E ok \in BOOLEAN : ExtractDeferClose(c, ok)
  \/ Cleanup(c)

NextConc == \E c \in Calls : StepConc(c)

SpecConc == InitConc /\ [][NextConc]_vars

\* a successful result holds exactly its own archive: every entry is in the
\* view, and every path under the temp directory belongs to one of the entries
HoldsOwnEntries(x) ==
  /\ x.d = ChrootFS(x.dirName)
  /\ \A k \in 1..Len(x.archive.entries) : EntryInView(x.d, x.archive.entries[k])
  /\ \A p \in DOMAIN tree :
       (IsPrefix(x.dirName, p) /\ p # x.dirName) =>
         \E k \in 1..Len(x.archive.entries) :
           LET e == x.archive.entries[k]
           IN ~Crosses(0, e.comps) /\ IsPrefix(p, x.dirName \o Clean(e.comps))

\* no invocation has written under the temp directory of another one
NoForeignWrites ==
  \A c \in Calls : \A o \in Calls \ {c} :
    ex[o].dirName # NoDir => \A p \in ex[c].touched : ~IsPrefix(ex[o].dirName, p)

OwnResults ==
  \A c \in Calls :
    LET x == ex[c]
    IN (x.pc = "returned" /\ x.err = NoErr /\ x.cleanups = 0) => HoldsOwnEntries(x)

\* a cleanup of c takes nothing off the backend but c's temp directory
CleanupRemovesOnlyOwn ==
  \A c \in Calls :
    (ex'[c].cleanups = ex[c].cleanups + 1 /\ ex[c].dirName # NoDir) =>
      /\ DOMAIN tree' \subseteq DOMAIN tree
      /\ \A p \in DOMAIN tree :
           IF p \in DOMAIN tree' THEN tree'[p] = tree[p]
           ELSE IsPrefix(ex[c].dirName, p)

\* C15: when two Extract invocations on independent archives interleave on
\* one backend and hold distinct temp names, each successful result holds
\* exactly the entries of its own archive, no invocation writes under the
\* other's temp directory, and a cleanup removes only its own temp directory.
C15_ConcurrentExtractSafe ==
  [][NoForeignWrites' /\ OwnResults' /\ CleanupRemovesOnlyOwn]_vars

====
